---------------------------- MODULE Spec2Model ----------------------------
(***************************************************************************)
(* Model of scripts/functions.py: four independent library functions,      *)
(* rmap, display_2d, to_1d and make_rectangular_lattice.  The functions    *)
(* share no state, so the state of the model is the last invocation        *)
(* (call), what it returned or raised (ret) and what it drew (canvas).     *)
(*                                                                         *)
(* Numbers.  The arithmetic is exact.  A radius is kept as the surd        *)
(* num * sqrt(rad) / den, a lattice coordinate as the fraction num / den.  *)
(* A center coordinate is given in units of 1/CenterScale of a pixel, so   *)
(* that centers between grid points are inputs too.                        *)
(* Arrays are functions on 0-based index ranges, None is the empty tuple   *)
(* and a present optional value v is <<v>>.                                *)
(***************************************************************************)
EXTENDS Integers, Sequences, FiniteSets

VARIABLES call, ret, canvas

vars == <<call, ret, canvas>>

----------------------------------------------------------------------------
(* Bounds of the inputs.                                                   *)

MaxN == 3
MaxL == 2
CenterScale == 2
MaxCells == 4
MaxDim == 2
MaxSpacing == 2

----------------------------------------------------------------------------
(* Exact numbers.                                                          *)

Sq(x) == x * x

Sgn(x) == IF x < 0 THEN -1 ELSE IF x = 0 THEN 0 ELSE 1

\* num * sqrt(rad) / den, with rad >= 0 and den > 0
Surd(num, rad, den) == [num |-> num, rad |-> rad, den |-> den]

SurdSign(v) == IF v.rad = 0 THEN 0 ELSE Sgn(v.num) * Sgn(v.den)

\* radius == 0, the comparison of line 21
IsZero(v) == SurdSign(v) = 0

\* equality of the two real numbers
SurdEq(a, b) ==
    /\ SurdSign(a) = SurdSign(b)
    /\ Sq(a.num) * a.rad * Sq(b.den) = Sq(b.num) * b.rad * Sq(a.den)

\* k * v for an integer k
SurdTimes(k, v) == [v EXCEPT !.num = k * @]

None == << >>

Some(v) == <<v>>

Returned(v) == [outcome |-> "ok", value |-> v]

Raised(e) == [outcome |-> e, value |-> None]

----------------------------------------------------------------------------
(* numpy primitives used by the functions.                                 *)

CeilDiv(a, b) == IF b > 0 THEN -((-a) \div b) ELSE -(a \div (-b))

\* len(np.arange(start, stop, step)) for step # 0
arangeLen(start, stop, step) ==
    LET q == CeilDiv(stop - start, step) IN IF q < 0 THEN 0 ELSE q

\* np.arange(start, stop, step) for step # 0
arange(start, stop, step) ==
    [k \in 0 .. arangeLen(start, stop, step) - 1 |-> start + k * step]

len(a) == Cardinality(DOMAIN a)

\* np.meshgrid(x, y) with the default indexing 'xy': both outputs have
\* shape (len(y), len(x)), X[i][j] = x[j] and Y[i][j] = y[i]
meshgridX(x, y) == [i \in DOMAIN y |-> [j \in DOMAIN x |-> x[j]]]

meshgridY(x, y) == [i \in DOMAIN y |-> [j \in DOMAIN x |-> y[i]]]

----------------------------------------------------------------------------
(* rmap, lines 5-22.  center is (center[1], center[2]) in units of         *)
(* 1/CenterScale, and so are the coordinate grids.                         *)

ZeroReplacementNum == 1
ZeroReplacementDen == 100

\* 1e-2
ZeroReplacement == Surd(ZeroReplacementNum, 1, ZeroReplacementDen)

\* norm = boxlength//n, the integer division float(n) is there to avoid
normFloorDiv(boxlength, n) == [num |-> boxlength \div n, den |-> 1]

\* norm = boxlength/float(n), n # 0
norm(boxlength, n) == [num |-> boxlength, den |-> n]

\* np.arange(n) - c
shifted(n, c) == [k \in DOMAIN arange(0, n, 1) |-> arange(0, n, 1)[k] * CenterScale - c]

rmapX(n, center) == meshgridX(shifted(n, center[1]), shifted(n, center[2]))

rmapY(n, center) == meshgridY(shifted(n, center[1]), shifted(n, center[2]))

\* radius = norm * np.sqrt(X**2 + Y**2)
rawRadius(n, center, boxlength) ==
    LET X == rmapX(n, center)
        Y == rmapY(n, center)
        nm == norm(boxlength, n)
    IN  [i \in DOMAIN X |-> [j \in DOMAIN X[i] |->
            Surd(nm.num, Sq(X[i][j]) + Sq(Y[i][j]), nm.den * CenterScale)]]

\* line 21 left out
keepZeros(radius) == radius

\* radius[radius==0] = 1e-2
replaceZeros(radius) ==
    [i \in DOMAIN radius |-> [j \in DOMAIN radius[i] |->
        IF IsZero(radius[i][j]) THEN ZeroReplacement ELSE radius[i][j]]]

\* boxlength/float(n) raises ZeroDivisionError for n = 0; for n < 0
\* np.arange(n) is empty and so is the array returned
rmap(n, center, boxlength) ==
    IF n = 0
    THEN Raised("ZeroDivisionError")
    ELSE Returned(replaceZeros(rawRadius(n, center, boxlength)))

----------------------------------------------------------------------------
(* to_1d, lines 65-82.  A 2D array of shape (r, c) is a function on        *)
(* 0 .. r-1 whose values are functions on 0 .. c-1.                        *)

\* the 2D array of shape `shape` holding the values of `flat` in C order
array2d(shape, flat) ==
    [i \in 0 .. shape[1] - 1 |-> [j \in 0 .. shape[2] - 1 |-> flat[i * shape[2] + j]]]

shapeOf(a) == <<len(a), IF len(a) = 0 THEN 0 ELSE len(a[0])>>

size(a) == shapeOf(a)[1] * shapeOf(a)[2]

\* a.flatten(): C order, row after row
flatten(a) ==
    LET shape == shapeOf(a)
    IN  [k \in 0 .. shape[1] * shape[2] - 1 |-> a[k \div shape[2]][k % shape[2]]]

\* the permutations of 0 .. n-1
Permutations[n \in 0 .. MaxCells] ==
    {p \in [0 .. n - 1 -> 0 .. n - 1] : \A a, b \in 0 .. n - 1 : p[a] = p[b] => a = b}

\* np.argsort(a): an index array that sorts a.  The default sort is not
\* stable, so equal values may come out in any order.
argsort(a) ==
    {ind \in Permutations[len(a)] :
        \A k \in 0 .. len(a) - 2 : a[ind[k]] <= a[ind[k + 1]]}

\* a[ind] raises IndexError when an index is out of bounds
indexable(a, ind) == \A k \in DOMAIN ind : ind[k] \in DOMAIN a

\* a[ind]
take(a, ind) == [k \in DOMAIN ind |-> a[ind[k]]]

\* return radius[ind], amplitude
to_1dAmplitudeNotPermuted(radius, amplitude, ind) ==
    LET r == flatten(radius)
        a == flatten(amplitude)
    IN  IF ~indexable(a, ind)
        THEN Raised("IndexError")
        ELSE Returned(<<take(r, ind), [k \in DOMAIN ind |-> a[k]]>>)

\* to_1d, where ind is the index array np.argsort(radius) returned at line 80
to_1d(radius, amplitude, ind) ==
    LET r == flatten(radius)
        a == flatten(amplitude)
    IN  IF ~indexable(a, ind)
        THEN Raised("IndexError")
        ELSE Returned(<<take(r, ind), take(a, ind)>>)

----------------------------------------------------------------------------
(* make_rectangular_lattice, lines 85-103.                                 *)

RECURSIVE SumTo(_, _)
\* a[0] + ... + a[n-1]
SumTo(a, n) == IF n = 0 THEN 0 ELSE SumTo(a, n - 1) + a[n - 1]

\* np.arange(0, d*s + s, s): the end point included
vecsOneTooMany(dimensions, spacing) ==
    [a \in 1 .. 3 |-> arange(0, dimensions[a] * spacing[a] + spacing[a], spacing[a])]

\* vecs = [np.arange(0, d*s, s) for d,s in zip(dimensions, spacing)]
vecs(dimensions, spacing) ==
    [a \in 1 .. 3 |-> arange(0, dimensions[a] * spacing[a], spacing[a])]

\* np.array(np.meshgrid(x, y, z)) with the default indexing 'xy': shape
\* (3, len(y), len(x), len(z)); grid 0 holds x[j], grid 1 y[i], grid 2 z[k]
meshgrid3(v) ==
    [a \in 0 .. 2 |->
        [i \in DOMAIN v[2] |-> [j \in DOMAIN v[1] |-> [k \in DOMAIN v[3] |->
            CASE a = 0 -> v[1][j]
              [] a = 1 -> v[2][i]
              [] a = 2 -> v[3][k]]]]]

\* .reshape(-1,3).T in place of .reshape(3,-1)
reshapeTransposed(grids, n1, n2, n3) ==
    [a \in 0 .. 2 |-> [m \in 0 .. n1 * n2 * n3 - 1 |->
        LET f == m * 3 + a
            g == f \div (n1 * n2 * n3)
            r == f % (n1 * n2 * n3)
        IN  grids[g][r \div (n2 * n3)][(r \div n3) % n2][r % n3]]]

\* .reshape(3,-1) of an array of shape (3, n1, n2, n3), in C order
reshape3(grids, n1, n2, n3) ==
    [a \in 0 .. 2 |-> [m \in 0 .. n1 * n2 * n3 - 1 |->
        grids[a][m \div (n2 * n3)][(m \div n3) % n2][m % n3]]]

\* Rn = np.array(np.meshgrid(*vecs)).reshape(3,-1)
latticeSites(dimensions, spacing) ==
    LET v == vecs(dimensions, spacing)
    IN  reshape3(meshgrid3(v), len(v[2]), len(v[1]), len(v[3]))

\* line 102 left out
notCentered(Rn) ==
    [a \in DOMAIN Rn |-> [m \in DOMAIN Rn[a] |-> [num |-> Rn[a][m], den |-> 1]]]

\* Rn - Rn.mean(1, keepdims=True): the mean of row a is SumTo(Rn[a], N) / N,
\* and x - s/N is kept as the fraction (x*N - s) / N
centered(Rn) ==
    [a \in DOMAIN Rn |-> [m \in DOMAIN Rn[a] |->
        [num |-> Rn[a][m] * len(Rn[a]) - SumTo(Rn[a], len(Rn[a])), den |-> len(Rn[a])]]]

\* np.arange raises ZeroDivisionError for a step of 0
make_rectangular_lattice(dimensions, spacing) ==
    IF \E a \in 1 .. 3 : spacing[a] = 0
    THEN Raised("ZeroDivisionError")
    ELSE Returned(centered(latticeSites(dimensions, spacing)))

----------------------------------------------------------------------------
(* display_2d, lines 24-62.  A dict is a function on its keys; shrink is   *)
(* in tenths.  The canvas records the calls made on the plotting library.  *)

DefaultShrink == 8

EmptyDict == [k \in {} |-> None]

NewAxes == "axes of plt.subplots()"

\* the colorbar drawn whatever the colorbar argument
display_2dAlwaysColorbar(data, title, ax, colorbar, cb_kws, xlabel, ylabel, kwargs) ==
    LET axes == IF ax = None THEN NewAxes ELSE ax[1]
        kws == IF cb_kws = None THEN [shrink |-> DefaultShrink] ELSE cb_kws[1]
        im == [data |-> data, ax |-> axes, kwargs |-> kwargs]
    IN  [subplots |-> (ax = None),
         imshow |-> im,
         colorbar |-> Some([im |-> im, ax |-> axes, kws |-> kws]),
         xlabel |-> IF xlabel = None THEN "x" ELSE xlabel[1],
         ylabel |-> IF ylabel = None THEN "y" ELSE ylabel[1],
         title |-> title,
         minorticks_on |-> TRUE,
         tick_params |-> [which |-> "both", top |-> TRUE, right |-> TRUE]]

\* what display_2d has drawn when it returns
display_2dCanvas(data, title, ax, colorbar, cb_kws, xlabel, ylabel, kwargs) ==
    LET axes == IF ax = None THEN NewAxes ELSE ax[1]
        kws == IF cb_kws = None THEN [shrink |-> DefaultShrink] ELSE cb_kws[1]
        im == [data |-> data, ax |-> axes, kwargs |-> kwargs]
    IN  [subplots |-> (ax = None),
         imshow |-> im,
         colorbar |-> IF colorbar THEN Some([im |-> im, ax |-> axes, kws |-> kws]) ELSE None,
         xlabel |-> IF xlabel = None THEN "x" ELSE xlabel[1],
         ylabel |-> IF ylabel = None THEN "y" ELSE ylabel[1],
         title |-> title,
         minorticks_on |-> TRUE,
         tick_params |-> [which |-> "both", top |-> TRUE, right |-> TRUE]]

\* return im
display_2d(data, title, ax, colorbar, cb_kws, xlabel, ylabel, kwargs) ==
    Returned(display_2dCanvas(data, title, ax, colorbar, cb_kws, xlabel, ylabel, kwargs).imshow)

----------------------------------------------------------------------------
(* The library is called with any arguments, in any order; the caller owns *)
(* what a call returns and drops it before the next call.                  *)

GridSizes == -1 .. MaxN

CenterCoords == -CenterScale .. MaxN * CenterScale

BoxLengths == -1 .. MaxL

Shapes == {s \in (1 .. MaxCells) \X (1 .. MaxCells) : s[1] * s[2] <= MaxCells}

RadiusValues == {0, 1, 2}

AmplitudeValues == {0, 1}

Arrays(values) ==
    UNION {{array2d(s, flat) : flat \in [0 .. s[1] * s[2] - 1 -> values]} : s \in Shapes}

Dimensions == -1 .. MaxDim

Spacings == -1 .. MaxSpacing

Optional(S) == {None} \cup {Some(v) : v \in S}

Fields == {"field A", "field B"}

Titles == {"", "wave"}

Axes == {"axes of the caller"}

Labels == {"", "q"}

ColorbarKws ==
    {EmptyDict, [shrink |-> 5], [label |-> "I"], [shrink |-> 5, label |-> "I"]}

ImshowKws == {EmptyDict, [cmap |-> "gray"]}

\* no call is in progress
Idle == call.op = "none"

Init ==
    /\ call = [op |-> "none"]
    /\ ret = [outcome |-> "none", value |-> None]
    /\ canvas = None

CallRmap ==
    /\ Idle
    /\ \E n \in GridSizes, cy \in CenterCoords, cx \in CenterCoords, L \in BoxLengths :
        /\ call' = [op |-> "rmap", n |-> n, center |-> <<cy, cx>>, boxlength |-> L]
        /\ ret' = rmap(n, <<cy, cx>>, L)
        /\ canvas' = None

CallTo1d ==
    /\ Idle
    /\ \E radius \in Arrays(RadiusValues) :
        \E ind \in argsort(flatten(radius)) :
            \E amplitude \in Arrays(AmplitudeValues) :
                /\ call' = [op |-> "to_1d", radius |-> radius, amplitude |-> amplitude]
                /\ ret' = to_1d(radius, amplitude, ind)
                /\ canvas' = None

CallMakeRectangularLattice ==
    /\ Idle
    /\ \E dimensions \in Dimensions \X Dimensions \X Dimensions,
          spacing \in Spacings \X Spacings \X Spacings :
        /\ call' = [op |-> "make_rectangular_lattice",
                    dimensions |-> dimensions, spacing |-> spacing]
        /\ ret' = make_rectangular_lattice(dimensions, spacing)
        /\ canvas' = None

CallDisplay2d ==
    /\ Idle
    /\ \E data \in Fields, title \in Titles, ax \in Optional(Axes), colorbar \in BOOLEAN,
          cb_kws \in Optional(ColorbarKws), xlabel \in Optional(Labels),
          ylabel \in Optional(Labels), kwargs \in ImshowKws :
        /\ call' = [op |-> "display_2d", data |-> data, title |-> title, ax |-> ax,
                    colorbar |-> colorbar, cb_kws |-> cb_kws, xlabel |-> xlabel,
                    ylabel |-> ylabel, kwargs |-> kwargs]
        /\ ret' = display_2d(data, title, ax, colorbar, cb_kws, xlabel, ylabel, kwargs)
        /\ canvas' = Some(display_2dCanvas(data, title, ax, colorbar, cb_kws,
                                           xlabel, ylabel, kwargs))

\* the caller drops the returned value
Discard ==
    /\ ~Idle
    /\ call' = [op |-> "none"]
    /\ ret' = [outcome |-> "none", value |-> None]
    /\ canvas' = None

Next == CallRmap \/ CallTo1d \/ CallMakeRectangularLattice \/ CallDisplay2d \/ Discard

Spec == Init /\ [][Next]_vars

----------------------------------------------------------------------------
(* Properties.                                                             *)

IsRmap == call.op = "rmap"

IsTo1d == call.op = "to_1d"

IsLattice == call.op = "make_rectangular_lattice"

IsDisplay == call.op = "display_2d"

Cells(n) == (0 .. n - 1) \X (0 .. n - 1)

\* the scaled distance of cell (i, j) from the center is exactly 0
ZeroDistance(i, j) ==
    \/ call.boxlength = 0
    \/ /\ rmapX(call.n, call.center)[i][j] = 0
       /\ rmapY(call.n, call.center)[i][j] = 0

\* C1: for n > 0, any center and any box length, rmap returns an n-by-n
\* array with no element equal to 0; every cell whose scaled distance is 0
\* holds 0.01.
C1_RmapHasNoZero ==
    (IsRmap /\ call.n > 0) =>
        /\ ret.outcome = "ok"
        /\ DOMAIN ret.value = 0 .. call.n - 1
        /\ \A i \in 0 .. call.n - 1 : DOMAIN ret.value[i] = 0 .. call.n - 1
        /\ \A c \in Cells(call.n) :
            /\ ~IsZero(ret.value[c[1]][c[2]])
            /\ ZeroDistance(c[1], c[2]) => ret.value[c[1]][c[2]] = ZeroReplacement

C1_Witness ==
    /\ IsRmap /\ call.n >= 2 /\ call.boxlength > 0
    /\ ret.outcome = "ok"
    /\ \E c \in Cells(call.n) :
        ZeroDistance(c[1], c[2]) /\ ret.value[c[1]][c[2]] = ZeroReplacement
    /\ \E c \in Cells(call.n) : ~ZeroDistance(c[1], c[2])

\* rmap(n, center, 2 * boxlength) of the call in progress
Doubled == rmap(call.n, call.center, 2 * call.boxlength).value

\* C2 as stated: doubling the box length doubles the value of every cell,
\* the cell at an on-grid center included.
C2_EveryCellDoubles ==
    (IsRmap /\ call.n > 0) =>
        \A c \in Cells(call.n) :
            SurdEq(Doubled[c[1]][c[2]], SurdTimes(2, ret.value[c[1]][c[2]]))

\* C2 amended: doubling the box length doubles the value of every cell whose
\* scaled distance is not 0; a cell whose scaled distance is 0 holds 0.01
\* for both box lengths.
C2_NonZeroCellsDouble ==
    (IsRmap /\ call.n > 0) =>
        \A c \in Cells(call.n) :
            IF ZeroDistance(c[1], c[2])
            THEN /\ ret.value[c[1]][c[2]] = ZeroReplacement
                 /\ Doubled[c[1]][c[2]] = ZeroReplacement
            ELSE SurdEq(Doubled[c[1]][c[2]], SurdTimes(2, ret.value[c[1]][c[2]]))

C2_Witness ==
    /\ IsRmap /\ call.n >= 2 /\ call.boxlength = 1
    /\ \E c \in Cells(call.n) :
        /\ ZeroDistance(c[1], c[2])
        /\ Doubled[c[1]][c[2]] = ret.value[c[1]][c[2]]
    /\ \E c \in Cells(call.n) :
        /\ ~ZeroDistance(c[1], c[2])
        /\ Doubled[c[1]][c[2]].num = 2
        /\ ret.value[c[1]][c[2]].num = 1

SameShape == shapeOf(call.radius) = shapeOf(call.amplitude)

\* the cells of the input holding radius r and amplitude a
InputCells(r, a) ==
    {c \in (DOMAIN call.radius) \X (DOMAIN call.radius[0]) :
        call.radius[c[1]][c[2]] = r /\ call.amplitude[c[1]][c[2]] = a}

\* the positions of the output holding radius r and amplitude a
OutputPositions(r, a) ==
    {k \in DOMAIN ret.value[1] : ret.value[1][k] = r /\ ret.value[2][k] = a}

\* C3: for same-shaped inputs to_1d returns two sequences as long as the
\* input has elements, the radius sequence non-decreasing, the pairs
\* (radius, amplitude) a permutation of the input's pairs.
C3_To1dSortsPairs ==
    (IsTo1d /\ SameShape) =>
        /\ ret.outcome = "ok"
        /\ DOMAIN ret.value[1] = 0 .. size(call.radius) - 1
        /\ DOMAIN ret.value[2] = 0 .. size(call.radius) - 1
        /\ \A k \in 0 .. size(call.radius) - 2 : ret.value[1][k] <= ret.value[1][k + 1]
        /\ \A r \in RadiusValues, a \in AmplitudeValues :
            Cardinality(OutputPositions(r, a)) = Cardinality(InputCells(r, a))

C3_Witness ==
    /\ IsTo1d /\ SameShape /\ shapeOf(call.radius) = <<2, 2>>
    /\ ret.outcome = "ok"
    /\ ret.value[1] # flatten(call.radius)
    /\ ret.value[2] # flatten(call.amplitude)
    /\ \E k \in 0 .. 2 : ret.value[1][k] = ret.value[1][k + 1]
    /\ \E k \in 0 .. 2 : ret.value[1][k] < ret.value[1][k + 1]

\* C4: to_1d with inputs of different shapes ends in an error (whatever its
\* name) and returns no pair.
C4_MismatchFails ==
    (IsTo1d /\ ~SameShape) => (ret.outcome # "ok" /\ ret.value = None)

\* C5: rmap with n <= 0 ends in an error (whatever its name) and returns no
\* array.
C5_NonPositiveNFails ==
    (IsRmap /\ call.n <= 0) => ret.outcome # "ok"

AllPositive(t) == \A a \in 1 .. 3 : t[a] > 0

NSites == call.dimensions[1] * call.dimensions[2] * call.dimensions[3]

C7_LatticeNeverFails ==
    IsLattice =>
        /\ ret.outcome = "ok"
        /\ (\E a \in 1 .. 3 : call.dimensions[a] = 0) =>
            \A a \in 0 .. 2 : len(ret.value[a]) = 0

\* C7 amended: make_rectangular_lattice validates nothing and returns an
\* array whenever no spacing is 0, also for zero or negative dimensions and
\* negative spacings; a dimension <= 0 then gives 0 columns.  A spacing of 0
\* ends in ZeroDivisionError.
C7_LatticeFailsOnlyOnZeroSpacing ==
    IsLattice =>
        IF \E a \in 1 .. 3 : call.spacing[a] = 0
        THEN ret.outcome = "ZeroDivisionError"
        ELSE /\ ret.outcome = "ok"
             /\ DOMAIN ret.value = 0 .. 2
             /\ (\E a \in 1 .. 3 : call.dimensions[a] <= 0) =>
                    \A a \in 0 .. 2 : len(ret.value[a]) = 0

C7_Witness ==
    /\ IsLattice
    /\ call.dimensions[1] = 0 /\ call.dimensions[2] > 0 /\ call.dimensions[3] > 0
    /\ call.spacing[2] < 0
    /\ ret.outcome = "ok"
    /\ \A a \in 0 .. 2 : len(ret.value[a]) = 0

Drawn == canvas[1]

\* the parts of C8 the amendment leaves alone
C8_Rest ==
    /\ ret.outcome = "ok"
    /\ Drawn.subplots <=> (call.ax = None)
    /\ Drawn.xlabel = (IF call.xlabel = None THEN "x" ELSE call.xlabel[1])
    /\ Drawn.ylabel = (IF call.ylabel = None THEN "y" ELSE call.ylabel[1])
    /\ (Drawn.colorbar # None) <=> call.colorbar
    /\ Drawn.minorticks_on
    /\ Drawn.tick_params.top /\ Drawn.tick_params.right
    /\ ret.value = Drawn.imshow
    /\ ret.value.data = call.data

\* C8 as stated: ... and the colorbar uses shrink 0.8 unless cb_kws holds a
\* shrink entry, also when cb_kws is supplied without one.
C8_ShrinkDefaultsPerEntry ==
    IsDisplay =>
        /\ C8_Rest
        /\ Drawn.colorbar # None =>
            LET kws == Drawn.colorbar[1].kws
            IN  /\ "shrink" \in DOMAIN kws
                /\ kws.shrink =
                     (IF call.cb_kws # None /\ "shrink" \in DOMAIN call.cb_kws[1]
                      THEN call.cb_kws[1].shrink ELSE DefaultShrink)

\* C8 amended: display_2d creates a drawing surface exactly when ax is not
\* supplied, labels default to "x"/"y", the colorbar is drawn iff colorbar is
\* not disabled, minor ticks and top/right ticks are always enabled and the
\* image handle of the rendering call on the unmodified data is returned;
\* the colorbar uses shrink 0.8 when cb_kws is not supplied, and exactly the
\* entries of cb_kws when it is (no shrink entry if cb_kws holds none).
C8_ShrinkDefaultsWithoutCbKws ==
    IsDisplay =>
        /\ C8_Rest
        /\ Drawn.colorbar # None =>
            Drawn.colorbar[1].kws =
                (IF call.cb_kws = None THEN [shrink |-> DefaultShrink] ELSE call.cb_kws[1])

C8_Witness ==
    /\ IsDisplay /\ call.colorbar /\ call.cb_kws = Some([label |-> "I"])
    /\ call.ax = None /\ call.xlabel = None /\ call.ylabel # None
    /\ Drawn.colorbar # None
    /\ "shrink" \notin DOMAIN Drawn.colorbar[1].kws

\* center is on a grid point: (r, c) in pixels
OnGrid ==
    /\ call.center[1] % CenterScale = 0 /\ call.center[2] % CenterScale = 0
    /\ call.center[1] \div CenterScale \in 0 .. call.n - 1
    /\ call.center[2] \div CenterScale \in 0 .. call.n - 1

\* C9: center is (row, column): for an on-grid center (r, c) the cell of row
\* r, column c holds 0.01 and any other cell (i, j) holds
\* (L/n) * sqrt((i-r)^2 + (j-c)^2).  Stated for L > 0, where the cells away
\* from the center are not 0.
C9_CenterIsRowColumn ==
    (IsRmap /\ call.n > 0 /\ call.boxlength > 0 /\ OnGrid) =>
        LET r == call.center[1] \div CenterScale
            c == call.center[2] \div CenterScale
        IN  \A p \in Cells(call.n) :
                IF p = <<r, c>>
                THEN ret.value[p[1]][p[2]] = ZeroReplacement
                ELSE SurdEq(ret.value[p[1]][p[2]],
                            Surd(call.boxlength, Sq(p[1] - r) + Sq(p[2] - c), call.n))

\* the lattice before the mean is subtracted
Sites == latticeSites(call.dimensions, call.spacing)

\* C10: for positive integer dimensions and spacings the columns before the
\* mean is subtracted are the Cartesian product of the three axes' coordinates
\* (row 0 x, row 1 y, row 2 z), every site in exactly one column.
C10_LatticeIsCartesianProduct ==
    (IsLattice /\ AllPositive(call.dimensions) /\ AllPositive(call.spacing)) =>
        /\ DOMAIN Sites = 0 .. 2
        /\ \A a \in 0 .. 2 : DOMAIN Sites[a] = 0 .. NSites - 1
        /\ {<<Sites[0][m], Sites[1][m], Sites[2][m]>> : m \in 0 .. NSites - 1} =
            {<<k[1] * call.spacing[1], k[2] * call.spacing[2], k[3] * call.spacing[3]>> :
                k \in (0 .. call.dimensions[1] - 1) \X (0 .. call.dimensions[2] - 1)
                      \X (0 .. call.dimensions[3] - 1)}
        /\ \A m1, m2 \in 0 .. NSites - 1 :
            (\A a \in 0 .. 2 : Sites[a][m1] = Sites[a][m2]) => m1 = m2

C10_Witness ==
    /\ IsLattice /\ call.dimensions = <<1, 2, 2>> /\ call.spacing = <<1, 2, 1>>
    /\ ret.outcome = "ok"
    /\ \E m \in 0 .. 3 : <<Sites[0][m], Sites[1][m], Sites[2][m]>> = <<0, 2, 1>>

============================================================================
